---- MODULE Spec2Model ----
(***************************************************************************)
(* Model of the bugsy_ontology document pipeline.                          *)
(*                                                                         *)
(*   chunker.py            spans -> groups -> classified chunks -> list    *)
(*                         blocks (+ merge_adjacent_headings)              *)
(*   section_hierarchy.py  chunks.csv -> Section nodes, HAS_SUBSECTION and *)
(*                         HAS_CHUNK edges (stack traversal)               *)
(*   list_item_extractor.py, figure_graph_builder.py,                      *)
(*   hyperlink_extractor.py  the other node/edge tables                    *)
(*   graph_builder.py      concatenation into all_nodes / all_edges        *)
(*                                                                         *)
(* Conventions.  Font sizes are integers in hundredths of a point (12.0 is *)
(* 1200, 13.5 is 1350).  A text is a sequence of characters, a character   *)
(* being a one-element string token; identifiers built by the code with    *)
(* f-strings are TLA+ strings built with \o.  A data frame is a sequence   *)
(* of row records; a CSV file is either NoFile or the sequence of rows     *)
(* written to it.  NaN / None is the value None.                           *)
(***************************************************************************)
EXTENDS Integers, Sequences, FiniteSets, TLC

VARIABLES
    \* ---- main.py / the graph stages --------------------------------
    chunks_csv,        \* output/chunks.csv: the persisted chunk sequence
    figures_csv,       \* output/figures.csv: the figure metadata table
    pc,                \* position of the running script
    error,             \* the exception that ended the run, or "none"
    font_to_level,     \* SectionHierarchyBuilder.build: section sizes, largest first
    row_idx,           \* SectionHierarchyBuilder.build: next row of df.iterrows()
    section_nodes,     \* SectionHierarchyBuilder.build: section_nodes
    edges,             \* SectionHierarchyBuilder.build: edges
    section_stack,     \* SectionHierarchyBuilder.build: section_stack
    files,             \* the node/edge CSV files written by the stages
    seen_ids,          \* HyperlinkExtractor.build: seen_refs and seen_urls
    \* ---- repeated calls and runs -----------------------------------
    runs,              \* completed runs of main.py or calls of process_structure
    first_files,       \* the files as the first run of main.py left them
    first_chunks,      \* the chunk sequence the first process_structure call returned
    rebuilt,           \* what a further HyperlinkExtractor.build call returned
    \* ---- chunker.py ------------------------------------------------
    spans,             \* the span sequence handed to process_structure
    cpc,               \* which chunker call has returned
    chunks_raw,        \* process_structure: chunks_raw
    heap,              \* the chunk dicts, by object identity (index = reference)
    classified,        \* process_structure: result before group_lists (references)
    result,            \* process_structure: the returned list (references)
    merged             \* merge_adjacent_headings: the returned list (references)

hierVars == <<font_to_level, row_idx, section_nodes, edges, section_stack>>
graphVars == <<chunks_csv, figures_csv, pc, error, hierVars, files, seen_ids>>
chunkerVars == <<spans, cpc, chunks_raw, heap, classified, result, merged>>
rerunVars == <<runs, first_files, first_chunks, rebuilt>>
vars == <<graphVars, chunkerVars, rerunVars>>

None == "None"
\* a cell that holds a text or nothing (None / NaN)
NullCell == [null |-> TRUE, text |-> <<>>]
Cell(t) == [null |-> FALSE, text |-> t]
\* an items cell that holds nothing (NaN)
NoItems == [kind |-> "nan", elems |-> <<>>]
\* a CSV file that has not been written, and one holding the rows of a data frame
NoFile == [exists |-> FALSE, rows |-> <<>>]
Written(rows) == [exists |-> TRUE, rows |-> rows]

(***************************************************************************)
(* Bounds of the model.                                                    *)
(***************************************************************************)
MaxChunks == 6        \* rows of chunks.csv in the hierarchy specification
MaxGraphChunks == 3   \* rows of chunks.csv in the whole-pipeline specification
MaxFigures == 2       \* rows of figures.csv
MaxSpans == 3         \* spans handed to the chunker
MaxStyledSpans == 2   \* spans of varied style handed to the chunker
MaxTextSpans == 2     \* spans of varied text handed to the chunker
MaxSizedSpans == 1    \* spans of varied size and length handed to the chunker
MaxHeadingSpans == 3  \* spans of two heading sizes handed to the chunker
MaxRuns == 2          \* runs of main.py, or calls of process_structure, on one input

(***************************************************************************)
(* Identifiers.                                                            *)
(***************************************************************************)
\* f"ch{idx:04d}"
Pad4(n) ==
    IF n < 10 THEN "000" \o ToString(n)
    ELSE IF n < 100 THEN "00" \o ToString(n)
    ELSE IF n < 1000 THEN "0" \o ToString(n)
    ELSE ToString(n)

ChunkId(idx) == "ch" \o Pad4(idx)

\* f"chunk_{chunk_id}"
ChunkNodeId(chunk_id) == "chunk_" \o chunk_id

\* f"section_{chunk_id}"
SectionNodeId(chunk_id) == "section_" \o chunk_id

Edge(s, t, r) == [source |-> s, target |-> t, relation |-> r]


(***************************************************************************)
(* Texts: sequences of characters.                                         *)
(***************************************************************************)
\* str.strip() and str.lstrip() remove leading/trailing whitespace
IsSpace(c) == c \in {" ", "\n", "\t"}

RECURSIVE LStrip(_)
LStrip(s) == IF s # <<>> /\ IsSpace(Head(s)) THEN LStrip(Tail(s)) ELSE s

RECURSIVE RStrip(_)
RStrip(s) ==
    IF s # <<>> /\ IsSpace(s[Len(s)]) THEN RStrip(SubSeq(s, 1, Len(s) - 1)) ELSE s

Strip(s) == RStrip(LStrip(s))

\* s.startswith(prefix)
StartsWith(s, prefix) ==
    Len(s) >= Len(prefix) /\ SubSeq(s, 1, Len(prefix)) = prefix

\* the characters of a text as one string
RECURSIVE Str(_)
Str(s) == IF s = <<>> THEN "" ELSE Head(s) \o Str(Tail(s))

Digits == {"0", "1", "2", "3", "4", "5", "6", "7", "8", "9"}

(***************************************************************************)
(* section_hierarchy.py                                                    *)
(***************************************************************************)
Range(s) == {s[i] : i \in 1..Len(s)}

SetMax(S) == CHOOSE m \in S : \A x \in S : x <= m

\* sorted(S, reverse=True)
RECURSIVE SortedDesc(_)
SortedDesc(S) ==
    IF S = {} THEN <<>>
    ELSE LET m == SetMax(S) IN <<m>> \o SortedDesc(S \ {m})

\* Take without the slice: every candidate size gets a level
TakeAll(s, n) == s

\* candidate_sizes[:n]
Take(s, n) == SubSeq(s, 1, IF Len(s) < n THEN Len(s) ELSE n)

NUM_LEVELS == 2
MinHeadingSize == 1200

\* SectionSizes without the type == "paragraph" filter
SectionSizesAnyType(df) ==
    LET unique_sizes == SortedDesc({df[i].font_size : i \in 1..Len(df)})
        candidate_sizes == SelectSeq(unique_sizes, LAMBDA s : s > MinHeadingSize)
    IN Take(candidate_sizes, NUM_LEVELS)

\* detect_section_levels: the sizes mapped to levels 1, 2 (position = level);
\* the empty sequence is the case that raises ValueError.
SectionSizes(df) ==
    LET para == {i \in 1..Len(df) : df[i].type = "paragraph"}
        \* every row of the chunk table carries a number: dropna() drops nothing
        unique_sizes == SortedDesc({df[i].font_size : i \in para})
        candidate_sizes == SelectSeq(unique_sizes, LAMBDA s : s > MinHeadingSize)
    IN Take(candidate_sizes, NUM_LEVELS)

\* font_to_level.get(size, 0)
LevelOfSize(f2l, size) ==
    IF \E i \in 1..Len(f2l) : f2l[i] = size
    THEN CHOOSE i \in 1..Len(f2l) : f2l[i] = size
    ELSE 0

\* get_section_level without the type test: the font size alone decides
GetSectionLevelAnyType(f2l, row) == LevelOfSize(f2l, row.font_size)

\* get_section_level(row)
get_section_level(f2l, row) ==
    IF row.type # "paragraph" THEN 0 ELSE LevelOfSize(f2l, row.font_size)

\* PopStack without the loop: no section is ever closed
PopStackNever(stack, level) == stack

\* PopStack with ">" for ">=": a section of the same level stays open
RECURSIVE PopStackStrict(_, _)
PopStackStrict(stack, level) ==
    IF stack # <<>> /\ stack[Len(stack)].level > level
    THEN PopStackStrict(SubSeq(stack, 1, Len(stack) - 1), level)
    ELSE stack

\* PopStack with "if" for "while": at most one section closes
PopStackOnce(stack, level) ==
    IF stack # <<>> /\ stack[Len(stack)].level >= level
    THEN SubSeq(stack, 1, Len(stack) - 1)
    ELSE stack

\* while section_stack and section_stack[-1]["level"] >= level: section_stack.pop()
RECURSIVE PopStack(_, _)
PopStack(stack, level) ==
    IF stack # <<>> /\ stack[Len(stack)].level >= level
    THEN PopStack(SubSeq(stack, 1, Len(stack) - 1), level)
    ELSE stack

\* builder = SectionHierarchyBuilder(...); builder.build() up to the end of
\* detect_section_levels: either the level map, or ValueError.
DetectSectionLevels ==
    /\ pc = "sections"
    /\ LET sizes == SectionSizes(chunks_csv) IN
        IF Len(sizes) = 0
        THEN /\ pc' = "failed"
             /\ error' = "ValueError"
             /\ UNCHANGED font_to_level
        ELSE /\ pc' = "traverse"
             /\ error' = error
             /\ font_to_level' = sizes
    /\ UNCHANGED <<chunks_csv, figures_csv, row_idx, section_nodes, edges,
                   section_stack, files, chunkerVars, seen_ids, rerunVars>>

\* One iteration of the loop over df.iterrows(), level > 0.
SectionRow ==
    /\ pc = "traverse"
    /\ row_idx <= Len(chunks_csv)
    /\ LET row == chunks_csv[row_idx]
           level == get_section_level(font_to_level, row)
           section_id == SectionNodeId(row.chunk_id)
           popped == PopStack(section_stack, level)
           parentEdge ==
               IF popped # <<>>
               THEN <<Edge(popped[Len(popped)].id, section_id, "HAS_SUBSECTION")>>
               ELSE <<>>
       IN /\ level > 0
          /\ section_nodes' = Append(section_nodes,
                 [id |-> section_id, label |-> "Section", level |-> level,
                  chunk_id |-> row.chunk_id])
          /\ section_stack' = Append(popped, [id |-> section_id, level |-> level])
          /\ edges' = edges \o parentEdge
                 \o <<Edge(section_id, ChunkNodeId(row.chunk_id), "HAS_CHUNK")>>
    /\ row_idx' = row_idx + 1
    /\ UNCHANGED <<chunks_csv, figures_csv, pc, error, font_to_level, files,
                   chunkerVars, seen_ids, rerunVars>>

\* ChunkRow attaching to the outermost open section instead of the stack top
ChunkRowBottom ==
    /\ pc = "traverse"
    /\ row_idx <= Len(chunks_csv)
    /\ LET row == chunks_csv[row_idx]
           level == get_section_level(font_to_level, row)
       IN /\ level = 0
          /\ edges' =
                 IF section_stack # <<>>
                 THEN Append(edges, Edge(section_stack[1].id,
                                         ChunkNodeId(row.chunk_id), "HAS_CHUNK"))
                 ELSE edges
    /\ row_idx' = row_idx + 1
    /\ UNCHANGED <<chunks_csv, figures_csv, pc, error, font_to_level,
                   section_nodes, section_stack, files, chunkerVars, seen_ids, rerunVars>>

\* One iteration of the loop over df.iterrows(), level = 0.
ChunkRow ==
    /\ pc = "traverse"
    /\ row_idx <= Len(chunks_csv)
    /\ LET row == chunks_csv[row_idx]
           level == get_section_level(font_to_level, row)
       IN /\ level = 0
          /\ edges' =
                 IF section_stack # <<>>
                 THEN Append(edges, Edge(section_stack[Len(section_stack)].id,
                                         ChunkNodeId(row.chunk_id), "HAS_CHUNK"))
                 ELSE edges
    /\ row_idx' = row_idx + 1
    /\ UNCHANGED <<chunks_csv, figures_csv, pc, error, font_to_level,
                   section_nodes, section_stack, files, chunkerVars, seen_ids, rerunVars>>

\* build() returns; build_section_hierarchy writes both tables.
WriteSections ==
    /\ pc = "traverse"
    /\ row_idx > Len(chunks_csv)
    /\ files' = [files EXCEPT !.nodes_sections = Written(section_nodes),
                              !.edges_sections = Written(edges)]
    /\ pc' = "sections_done"
    /\ UNCHANGED <<chunks_csv, figures_csv, error, hierVars, chunkerVars, seen_ids, rerunVars>>

(***************************************************************************)
(* Inputs of the hierarchy specification: rows of chunks.csv.              *)
(***************************************************************************)
HierKinds ==
    { [type |-> "paragraph",  font_size |-> 1600],
      [type |-> "paragraph",  font_size |-> 1400],
      [type |-> "paragraph",  font_size |-> 1300],
      [type |-> "paragraph",  font_size |-> 1100],
      [type |-> "section_h1", font_size |-> 1600] }

ChunkRowOf(k, idx) ==
    [chunk_id |-> ChunkId(idx), type |-> k.type, font_size |-> k.font_size,
     hyperlink_target |-> NullCell, items |-> NoItems]

RECURSIVE SeqsUpTo(_, _)
SeqsUpTo(S, n) ==
    IF n = 0 THEN {<<>>}
    ELSE LET shorter == SeqsUpTo(S, n - 1)
         IN shorter \cup {Append(s, x) : s \in {t \in shorter : Len(t) = n - 1}, x \in S}

NoFiles ==
    [nodes_sections |-> NoFile, edges_sections |-> NoFile,
     nodes_list_items |-> NoFile, edges_list_items |-> NoFile,
     nodes_figures |-> NoFile, edges_figures |-> NoFile,
     nodes_hyperlinks |-> NoFile, edges_hyperlinks |-> NoFile,
     all_nodes |-> NoFile, all_edges |-> NoFile]

\* nothing has been run or called before
FirstRun ==
    /\ runs = 0
    /\ first_files = NoFiles
    /\ first_chunks = <<>>
    /\ rebuilt = [called |-> FALSE, nodes |-> <<>>, edges |-> <<>>]

\* the chunker has not been called
ChunkerIdle ==
    /\ spans = <<>>
    /\ cpc = "idle"
    /\ chunks_raw = <<>>
    /\ heap = <<>>
    /\ classified = <<>>
    /\ result = <<>>
    /\ merged = <<>>

InitHier ==
    /\ \E ks \in SeqsUpTo(HierKinds, MaxChunks) :
          chunks_csv = [i \in 1..Len(ks) |-> ChunkRowOf(ks[i], i - 1)]
    /\ figures_csv = <<>>
    /\ pc = "sections"
    /\ error = "none"
    /\ font_to_level = <<>>
    /\ row_idx = 1
    /\ section_nodes = <<>>
    /\ edges = <<>>
    /\ section_stack = <<>>
    /\ files = NoFiles
    /\ seen_ids = {}
    /\ ChunkerIdle
    /\ FirstRun

NextHier ==
    \/ DetectSectionLevels
    \/ SectionRow
    \/ ChunkRow
    \/ WriteSections

\* section_hierarchy.py run as a script (its __main__ block)
SpecHier == InitHier /\ [][NextHier]_vars

(***************************************************************************)
(* list_item_extractor.py                                                  *)
(*                                                                         *)
(* The items column holds NaN (NoItems), or the text written for a Python  *)
(* list of strings: [kind |-> "list", elems |-> the strings], or text that *)
(* ast.literal_eval rejects: [kind |-> "garbage", elems |-> <<>>].         *)
(***************************************************************************)
RECURSIVE Concat(_)
Concat(ss) == IF ss = <<>> THEN <<>> ELSE Head(ss) \o Concat(Tail(ss))

\* is_list_chunk(row)
is_list_chunk(row) ==
    LET has_list_type == row.type \in {"list_block", "ordered_list_block"}
        has_items == row.items.kind # "nan"
    IN has_list_type \/ has_items

\* txt.lstrip("•")
RECURSIVE LStripBullet(_)
LStripBullet(s) ==
    IF s # <<>> /\ Head(s) = "BULLET" THEN LStripBullet(Tail(s)) ELSE s

\* the body of the loop "for it in parsed" for one element: the texts appended
ParsedItem(it) ==
    LET txt == Strip(it) IN
    IF txt = <<>> THEN <<>>
    ELSE IF StartsWith(txt, <<"BULLET">>) THEN <<Strip(LStripBullet(txt))>>
    ELSE <<txt>>

\* parse_items(items_raw)
parse_items(items_raw) ==
    IF items_raw.kind = "nan" THEN <<>>
    ELSE IF items_raw.kind # "list" THEN <<>>
    ELSE Concat([k \in 1..Len(items_raw.elems) |-> ParsedItem(items_raw.elems[k])])

\* f"listitem_{chunk_id}_{idx}"
ListItemNodeId(chunk_id, idx) == "listitem_" \o chunk_id \o "_" \o ToString(idx)

\* the ListItem nodes of one list chunk
ListItemNodesOf(row) ==
    LET items == parse_items(row.items) IN
    [k \in 1..Len(items) |->
        [id |-> ListItemNodeId(row.chunk_id, k - 1), label |-> "ListItem",
         chunk_id |-> row.chunk_id, order |-> k - 1, text |-> items[k]]]

\* the HAS_ITEM edges of one list chunk
ListItemEdgesOf(row) ==
    LET items == parse_items(row.items) IN
    [k \in 1..Len(items) |->
        Edge(ChunkNodeId(row.chunk_id), ListItemNodeId(row.chunk_id, k - 1), "HAS_ITEM")]

\* build_list_items: ListItemExtractor.build, then both tables written
BuildListItems ==
    /\ pc = "sections_done"
    /\ LET list_chunks == SelectSeq(chunks_csv, is_list_chunk)
           listitem_nodes ==
               Concat([k \in 1..Len(list_chunks) |-> ListItemNodesOf(list_chunks[k])])
           item_edges ==
               Concat([k \in 1..Len(list_chunks) |-> ListItemEdgesOf(list_chunks[k])])
       IN files' = [files EXCEPT !.nodes_list_items = Written(listitem_nodes),
                                 !.edges_list_items = Written(item_edges)]
    /\ pc' = "lists_done"
    /\ UNCHANGED <<chunks_csv, figures_csv, error, hierVars, chunkerVars, seen_ids, rerunVars>>

(***************************************************************************)
(* figure_graph_builder.py                                                 *)
(***************************************************************************)
\* f"figure_{fig_id}"
FigureNodeId(fig_id) == "figure_" \o fig_id

\* the body of the loop over figures.csv for one row: the Figure node
FigureNodeOf(row) ==
    [id |-> FigureNodeId(row.figure_id), label |-> "Figure", figure_id |-> row.figure_id]

\* the body of the loop over figures.csv for one row: the CAPTIONS edge, if any
FigureEdgesOf(row) ==
    IF row.caption_chunk # None
    THEN <<Edge(ChunkNodeId(row.caption_chunk), FigureNodeId(row.figure_id), "CAPTIONS")>>
    ELSE <<>>

\* build_figures: FigureGraphBuilder.build, then both tables written
BuildFigures ==
    /\ pc = "lists_done"
    /\ LET figure_nodes == [k \in 1..Len(figures_csv) |-> FigureNodeOf(figures_csv[k])]
           figure_edges ==
               Concat([k \in 1..Len(figures_csv) |-> FigureEdgesOf(figures_csv[k])])
       IN files' = [files EXCEPT !.nodes_figures = Written(figure_nodes),
                                 !.edges_figures = Written(figure_edges)]
    /\ pc' = "figures_done"
    /\ UNCHANGED <<chunks_csv, figures_csv, error, hierVars, chunkerVars, seen_ids, rerunVars>>

(***************************************************************************)
(* hyperlink_extractor.py                                                  *)
(*                                                                         *)
(* hyperlink_target holds NullCell (NaN) or Cell(the characters).          *)
(***************************************************************************)
\* raw.isdigit()
IsDigitText(s) == s # <<>> /\ \A k \in 1..Len(s) : s[k] \in Digits

\* int(raw) succeeds: an optional sign and decimal digits
IntParses(s) ==
    \/ IsDigitText(s)
    \/ s # <<>> /\ Head(s) \in {"-", "+"} /\ IsDigitText(Tail(s))

HttpPrefix == <<"h", "t", "t", "p", ":", "/", "/">>
HttpsPrefix == <<"h", "t", "t", "p", "s", ":", "/", "/">>

\* pd.read_csv infers the type of the hyperlink_target column from all of its
\* cells: text as soon as one cell is no number, else integers when no cell
\* is empty, else floating point (an empty cell is NaN, which no integer
\* column can hold).  The model's cells hold no decimal fractions.
TargetDtype(df) ==
    IF \E i \in 1..Len(df) :
          ~ df[i].hyperlink_target.null /\ ~ IntParses(df[i].hyperlink_target.text)
    THEN "object"
    ELSE IF \E i \in 1..Len(df) : df[i].hyperlink_target.null
    THEN "float64"
    ELSE "int64"

\* the digits of a decimal numeral without its leading zeros
RECURSIVE DropLeadingZeros(_)
DropLeadingZeros(s) ==
    IF Len(s) > 1 /\ Head(s) = "0" THEN DropLeadingZeros(Tail(s)) ELSE s

\* str(int(s)) for a numeral s
StrOfInt(s) ==
    IF Head(s) = "-" THEN
        (IF DropLeadingZeros(Tail(s)) = <<"0">> THEN <<"0">>
         ELSE <<"-">> \o DropLeadingZeros(Tail(s)))
    ELSE IF Head(s) = "+" THEN DropLeadingZeros(Tail(s))
    ELSE DropLeadingZeros(s)

\* str(float(s)) for an integral numeral s: "12" reads back as 12.0
StrOfFloat(s) ==
    IF Head(s) = "-" /\ DropLeadingZeros(Tail(s)) = <<"0">> THEN <<"-", "0", ".", "0">>
    ELSE StrOfInt(s) \o <<".", "0">>

\* the data frame pd.read_csv(chunks_csv_path) gives the extractor: each
\* hyperlink_target cell as str() renders the value read (NaN stays null)
read_csv(df) ==
    LET dtype == TargetDtype(df)
        ReadCell(c) ==
            IF c.null THEN c
            ELSE IF dtype = "int64" THEN Cell(StrOfInt(c.text))
            ELSE IF dtype = "float64" THEN Cell(StrOfFloat(c.text))
            ELSE c
    IN [i \in 1..Len(df) |->
           [df[i] EXCEPT !.hyperlink_target = ReadCell(df[i].hyperlink_target)]]

\* classify_target(raw)
classify_target(raw) ==
    IF raw.null THEN [type |-> "none", value |-> <<>>]
    ELSE LET r == Strip(raw.text) IN
         IF r = <<>> THEN [type |-> "none", value |-> <<>>]
         ELSE IF StartsWith(r, HttpPrefix) \/ StartsWith(r, HttpsPrefix)
              THEN [type |-> "url", value |-> r]
         ELSE IF IsDigitText(r) THEN [type |-> "reference", value |-> r]
         ELSE IF IntParses(r) THEN [type |-> "reference", value |-> r]
         ELSE [type |-> "url", value |-> r]

\* hashlib.md5(value.encode("utf-8")).hexdigest()[:12]: a digest of the text
\* that is not injective (here: its length and its last character)
Md5Hex12(value) == ToString(Len(value)) \o value[Len(value)]

\* the identifier a classified target is given
TargetNodeId(c) ==
    IF c.type = "reference" THEN "ref_" \o Str(c.value)
    ELSE "url_" \o Md5Hex12(c.value)

\* the loop of HyperlinkExtractor.build from row i on; seen is the union of
\* seen_refs and seen_urls (their members differ in prefix)
RECURSIVE HyperlinkRows(_, _, _, _, _)
HyperlinkRows(df, i, nodes, es, seen) ==
    IF i > Len(df) THEN [nodes |-> nodes, edges |-> es, seen |-> seen]
    ELSE LET row == df[i]
             c == classify_target(row.hyperlink_target)
         IN IF c.type = "none" THEN HyperlinkRows(df, i + 1, nodes, es, seen)
            ELSE LET tid == TargetNodeId(c)
                     label == IF c.type = "reference" THEN "ReferenceTarget" ELSE "Url"
                     nodes2 == IF tid \notin seen
                               THEN Append(nodes, [id |-> tid, label |-> label,
                                                   value |-> c.value])
                               ELSE nodes
                     es2 == Append(es, Edge(ChunkNodeId(row.chunk_id), tid, "LINKS_TO"))
                 IN HyperlinkRows(df, i + 1, nodes2, es2, seen \cup {tid})

\* seen sets that outlive the call, as attributes of the extractor would
SeenKept(left) == left

\* seen_refs = set(); seen_urls = set(): the seen sets a call of build starts
\* with, whatever an earlier call left in its own
SeenAtEntry(left) == {}

\* HyperlinkExtractor.build()
HyperlinkExtractor_build(df, left) ==
    HyperlinkRows(df, 1, <<>>, <<>>, SeenAtEntry(left))

\* build_hyperlinks: HyperlinkExtractor.build, then both tables written
BuildHyperlinks ==
    /\ pc = "figures_done"
    /\ LET built == HyperlinkExtractor_build(read_csv(chunks_csv), seen_ids)
       IN /\ files' = [files EXCEPT !.nodes_hyperlinks = Written(built.nodes),
                                    !.edges_hyperlinks = Written(built.edges)]
          /\ seen_ids' = built.seen
    /\ pc' = "hyperlinks_done"
    /\ UNCHANGED <<chunks_csv, figures_csv, error, hierVars, chunkerVars, rerunVars>>

\* what no further call of build has returned yet
NotRebuilt == [called |-> FALSE, nodes |-> <<>>, edges |-> <<>>]

\* a further call of build() on the extractor build_hyperlinks made
BuildHyperlinksAgain ==
    /\ pc = "hyperlinks_done"
    /\ ~ rebuilt.called
    /\ LET built == HyperlinkExtractor_build(read_csv(chunks_csv), seen_ids)
       IN /\ rebuilt' = [called |-> TRUE, nodes |-> built.nodes, edges |-> built.edges]
          /\ seen_ids' = built.seen
    /\ UNCHANGED <<chunks_csv, figures_csv, pc, error, hierVars, files, chunkerVars,
                   runs, first_files, first_chunks>>

(***************************************************************************)
(* graph_builder.py                                                        *)
(***************************************************************************)
\* the Chunk node of one row of chunks.csv
ChunkNodeOf(row) ==
    [id |-> ChunkNodeId(row.chunk_id), label |-> "Chunk", chunk_id |-> row.chunk_id,
     type |-> row.type, font_size |-> row.font_size]

\* pd.read_csv raises EmptyDataError on the file to_csv writes for a data
\* frame built from an empty list (no columns, no rows)
ReadFails(f) == f.exists /\ f.rows = <<>>

\* the node tables and the edge tables GraphBuilder.build reads, in its order
NodeTables ==
    <<files.nodes_sections, files.nodes_list_items, files.nodes_figures,
      files.nodes_hyperlinks>>

EdgeTables ==
    <<files.edges_sections, files.edges_list_items, files.edges_figures,
      files.edges_hyperlinks>>

\* df_all_nodes: pd.concat of the Chunk nodes and the node tables
AssembledNodes ==
    [k \in 1..Len(chunks_csv) |-> ChunkNodeOf(chunks_csv[k])]
        \o Concat([k \in 1..Len(NodeTables) |-> NodeTables[k].rows])

\* df_all_edges: pd.concat of the edge tables
AssembledEdges == Concat([k \in 1..Len(EdgeTables) |-> EdgeTables[k].rows])

\* build_full_graph: GraphBuilder.build
BuildFullGraph ==
    /\ pc = "hyperlinks_done"
    /\ IF \E k \in 1..4 : ReadFails(NodeTables[k]) \/ ReadFails(EdgeTables[k])
       THEN /\ pc' = "failed"
            /\ error' = "EmptyDataError"
            /\ UNCHANGED files
       ELSE /\ pc' = "done"
            /\ error' = error
            /\ files' = [files EXCEPT !.all_nodes = Written(AssembledNodes),
                                      !.all_edges = Written(AssembledEdges)]
    /\ UNCHANGED <<chunks_csv, figures_csv, hierVars, chunkerVars, seen_ids, rerunVars>>

(***************************************************************************)
(* Inputs of the whole-pipeline specification.                             *)
(***************************************************************************)
Text12 == <<"1", "2">>
TextUrlA == <<"h", "t", "t", "p", ":", "/", "/", "a">>

GraphKinds ==
    { [type |-> "paragraph", font_size |-> 1400, hyperlink_target |-> NullCell,
       items |-> NoItems],
      [type |-> "paragraph", font_size |-> 1400, hyperlink_target |-> Cell(TextUrlA),
       items |-> NoItems],
      [type |-> "paragraph", font_size |-> 1100, hyperlink_target |-> Cell(Text12),
       items |-> NoItems],
      [type |-> "paragraph", font_size |-> 1100, hyperlink_target |-> Cell(TextUrlA),
       items |-> NoItems],
      [type |-> "list_block", font_size |-> 1100, hyperlink_target |-> NullCell,
       items |-> [kind |-> "list", elems |-> << <<"BULLET", " ", "a">>, <<"b">> >>]],
      [type |-> "list_block", font_size |-> 1100, hyperlink_target |-> NullCell,
       items |-> [kind |-> "garbage", elems |-> <<>>]] }

GraphRowOf(k, idx) ==
    [chunk_id |-> ChunkId(idx), type |-> k.type, font_size |-> k.font_size,
     hyperlink_target |-> k.hyperlink_target, items |-> k.items]

\* rows of figures.csv: caption_chunk is None (NaN), the id of a chunk of the
\* table, or an id that no chunk of the table carries
FigureKinds ==
    { [figure_id |-> "fig_0001", caption_chunk |-> ChunkId(0)],
      [figure_id |-> "fig_0001", caption_chunk |-> None],
      [figure_id |-> "fig_0002", caption_chunk |-> ChunkId(1)],
      [figure_id |-> "fig_0002", caption_chunk |-> ChunkId(9)] }

Init ==
    /\ \E ks \in SeqsUpTo(GraphKinds, MaxGraphChunks) :
          chunks_csv = [i \in 1..Len(ks) |-> GraphRowOf(ks[i], i - 1)]
    /\ figures_csv \in SeqsUpTo(FigureKinds, MaxFigures)
    /\ pc = "sections"
    /\ error = "none"
    /\ font_to_level = <<>>
    /\ row_idx = 1
    /\ section_nodes = <<>>
    /\ edges = <<>>
    /\ section_stack = <<>>
    /\ files = NoFiles
    /\ seen_ids = {}
    /\ ChunkerIdle
    /\ FirstRun

Next ==
    \/ NextHier
    \/ BuildListItems
    \/ BuildFigures
    \/ BuildHyperlinks
    \/ BuildFullGraph

\* main.py
Spec == Init /\ [][Next]_vars

(***************************************************************************)
(* chunker.py                                                              *)
(*                                                                         *)
(* A span is [page, text, bbox, font, size, color, bold, italic,           *)
(* hyperlink_target]; bbox is <<x0, y0, x1, y1>>; hyperlink_target is      *)
(* [kind |-> "none" | "int" | "str", num, text].  Characters outside ASCII *)
(* are named tokens: "BULLET", "ENDASH", "MIDDOT", "RING", and "cyr_x" /   *)
(* "CYR_X" for lower and upper case Cyrillic letters.                      *)
(***************************************************************************)
NoTarget == [kind |-> "none", num |-> 0, text |-> <<>>]

\* the truth value Python gives a hyperlink_target: None, 0 and "" are false
Truthy(t) ==
    \/ t.kind = "int" /\ t.num # 0
    \/ t.kind = "str" /\ t.text # <<>>

\* ("•", "-", "–", "·", "◦", "*")
unordered_markers == {"BULLET", "-", "ENDASH", "MIDDOT", "RING", "*"}

\* prev["text"].strip() in ("•", "-", "–", "·", "◦", "*")
IsBareMarker(text) ==
    LET t == Strip(text) IN Len(t) = 1 /\ t[1] \in unordered_markers

GapSmallType == 6
GapLargeType == 10
LargeTypeSize == 1300
ColorTolerance == 10

Abs(x) == IF x < 0 THEN 0 - x ELSE x

\* vertical_gap: 0 unless both spans have a bbox (<<>> stands for a missing one)
vertical_gap(prev, curr) ==
    IF prev.bbox # <<>> /\ curr.bbox # <<>> THEN curr.bbox[2] - prev.bbox[4] ELSE 0

same_style(prev, curr) ==
    /\ curr.size = prev.size
    /\ curr.bold = prev.bold
    /\ curr.italic = prev.italic
    /\ Abs(curr.color - prev.color) < ColorTolerance
    /\ curr.font = prev.font

\* max_gap without the size test
MaxGapFlat(curr) == GapLargeType

max_gap(curr) == IF curr.size >= LargeTypeSize THEN GapLargeType ELSE GapSmallType

\* NewGroup holding its first span twice
NewGroupTwice(span) ==
    [lines |-> <<span, span>>, page_start |-> span.page, page_end |-> span.page]

\* {"lines": [span], "page_start": span["page"], "page_end": span["page"]}
NewGroup(span) == [lines |-> <<span>>, page_start |-> span.page, page_end |-> span.page]

\* ExtendGroup updating page_start where the code updates page_end
ExtendGroupStart(current, curr) ==
    [current EXCEPT !.lines = Append(@, curr), !.page_start = curr.page]

\* current_chunk["lines"].append(curr); current_chunk["page_end"] = curr["page"]
ExtendGroup(current, curr) ==
    [current EXCEPT !.lines = Append(@, curr), !.page_end = curr.page]

\* the while loop of group_into_chunks from index i (1-based) on
RECURSIVE GroupLoop(_, _, _, _)
GroupLoop(sp, i, chunks, current) ==
    IF i > Len(sp) THEN Append(chunks, current)
    ELSE LET prev == sp[i - 1]
             curr == sp[i]
         IN IF IsBareMarker(prev.text)
            THEN GroupLoop(sp, i + 1, chunks, ExtendGroup(current, curr))
            ELSE IF ~ same_style(prev, curr) \/ vertical_gap(prev, curr) > max_gap(curr)
            THEN GroupLoop(sp, i + 1, Append(chunks, current), NewGroup(curr))
            ELSE GroupLoop(sp, i + 1, chunks, ExtendGroup(current, curr))

\* group_into_chunks(spans)
group_into_chunks(sp) ==
    IF sp = <<>> THEN <<>> ELSE GroupLoop(sp, 2, <<>>, NewGroup(sp[1]))

\* sep.join(texts)
RECURSIVE Join(_, _)
Join(texts, sep) ==
    IF texts = <<>> THEN <<>>
    ELSE IF Len(texts) = 1 THEN texts[1]
    ELSE texts[1] \o sep \o Join(Tail(texts), sep)

\* " ".join([l["text"] for l in lines]).strip()
full_text(lines) == Strip(Join([k \in 1..Len(lines) |-> lines[k].text], <<" ">>))

RECURSIVE SumSizes(_)
SumSizes(lines) == IF lines = <<>> THEN 0 ELSE Head(lines).size + SumSizes(Tail(lines))

\* round(np.mean(sizes), 2), in hundredths: to the nearest, ties to even
avg_size(lines) ==
    LET n == Len(lines)
        q == SumSizes(lines) \div n
        r == SumSizes(lines) % n
    IN IF 2 * r < n THEN q
       ELSE IF 2 * r > n THEN q + 1
       ELSE IF q % 2 = 0 THEN q ELSE q + 1

UpperLatin ==
    <<"A", "B", "C", "D", "E", "F", "G", "H", "I", "J", "K", "L", "M", "N", "O", "P",
      "Q", "R", "S", "T", "U", "V", "W", "X", "Y", "Z">>

LowerLatin ==
    <<"a", "b", "c", "d", "e", "f", "g", "h", "i", "j", "k", "l", "m", "n", "o", "p",
      "q", "r", "s", "t", "u", "v", "w", "x", "y", "z">>

\* the Cyrillic letters the model's texts use
UpperCyrillic == <<"CYR_A", "CYR_B", "CYR_I", "CYR_L", "CYR_M", "CYR_R", "CYR_S", "CYR_T">>

LowerCyrillic == <<"cyr_a", "cyr_b", "cyr_i", "cyr_l", "cyr_m", "cyr_r", "cyr_s", "cyr_t">>

UpperLetters == UpperLatin \o UpperCyrillic

LowerLetters == LowerLatin \o LowerCyrillic

\* str.lower(), per character
LowerChar(c) ==
    IF \E k \in 1..Len(UpperLetters) : UpperLetters[k] = c
    THEN LowerLetters[CHOOSE k \in 1..Len(UpperLetters) : UpperLetters[k] = c]
    ELSE c

RECURSIVE Lower(_)
Lower(text) ==
    IF text = <<>> THEN <<>>
    ELSE IF Len(text) = 1 THEN <<LowerChar(text[1])>>
    ELSE LET half == Len(text) \div 2
         IN Lower(SubSeq(text, 1, half)) \o Lower(SubSeq(text, half + 1, Len(text)))

\* sub in text
Contains(text, sub) ==
    \E k \in 0..(Len(text) - Len(sub)) : SubSeq(text, k + 1, k + Len(sub)) = sub

RefMarkerRis == <<"cyr_r", "cyr_i", "cyr_s">>
RefMarkerTabl == <<"cyr_t", "cyr_a", "cyr_b", "cyr_l">>
RefMarkerSm == <<"cyr_s", "cyr_m", ".">>

\* has_reference
has_reference(lines) ==
    \E k \in 1..Len(lines) :
        LET t == Lower(lines[k].text)
        IN Contains(t, RefMarkerRis) \/ Contains(t, RefMarkerTabl) \/ Contains(t, RefMarkerSm)

\* the character classes of ordered_pattern: [a-zа-яA-Z]
PatternLetters == Range(LowerLatin) \cup Range(LowerCyrillic) \cup Range(UpperLatin)

\* the length of the longest prefix of digits
RECURSIVE DigitRun(_)
DigitRun(text) ==
    IF text # <<>> /\ Head(text) \in Digits THEN 1 + DigitRun(Tail(text)) ELSE 0

\* re.compile(r"^(\d+[.)]|[a-zа-яA-Z]\))\s").match(text) is not None
ordered_pattern(text) ==
    LET d == DigitRun(text) IN
    \/ /\ d >= 1
       /\ Len(text) >= d + 2
       /\ text[d + 1] \in {".", ")"}
       /\ IsSpace(text[d + 2])
    \/ /\ Len(text) >= 3
       /\ text[1] \in PatternLetters
       /\ text[2] = ")"
       /\ IsSpace(text[3])

ShortHeadingLen == 160
CaptionLen == 100
H1Size == 1600
H2Size == 1350
H3Size == 1200

\* classify_chunk testing the caption rule before the reference rule
ClassifyCaptionFirst(chunk) ==
    LET lines == chunk.lines
        text == full_text(lines)
        n == Len(lines)
        total == SumSizes(lines)
        is_bold == \E k \in 1..n : lines[k].bold
        is_short_heading == Len(text) < ShortHeadingLen
    IN IF ordered_pattern(LStrip(text)) THEN "ordered_list_item"
       ELSE IF LStrip(text) # <<>> /\ Head(LStrip(text)) \in unordered_markers
            THEN "list_item"
       ELSE IF total >= H1Size * n /\ is_bold /\ is_short_heading THEN "section_h1"
       ELSE IF H2Size * n <= total /\ total < H1Size * n /\ is_bold /\ is_short_heading
            THEN "section_h2"
       ELSE IF H3Size * n <= total /\ total < H2Size * n /\ is_bold /\ is_short_heading
            THEN "section_h3"
       ELSE IF total < H3Size * n /\ ~ is_bold /\ Len(text) < CaptionLen THEN "caption"
       ELSE IF has_reference(lines) THEN "reference"
       ELSE "paragraph"

\* classify_chunk testing the heading and reference rules before the list rules
ClassifyListsLast(chunk) ==
    LET lines == chunk.lines
        text == full_text(lines)
        n == Len(lines)
        total == SumSizes(lines)
        is_bold == \E k \in 1..n : lines[k].bold
        is_short_heading == Len(text) < ShortHeadingLen
    IN IF total >= H1Size * n /\ is_bold /\ is_short_heading THEN "section_h1"
       ELSE IF H2Size * n <= total /\ total < H1Size * n /\ is_bold /\ is_short_heading
            THEN "section_h2"
       ELSE IF H3Size * n <= total /\ total < H2Size * n /\ is_bold /\ is_short_heading
            THEN "section_h3"
       ELSE IF has_reference(lines) THEN "reference"
       ELSE IF ordered_pattern(LStrip(text)) THEN "ordered_list_item"
       ELSE IF LStrip(text) # <<>> /\ Head(LStrip(text)) \in unordered_markers
            THEN "list_item"
       ELSE IF total < H3Size * n /\ ~ is_bold /\ Len(text) < CaptionLen THEN "caption"
       ELSE "paragraph"

\* classify_chunk(chunk)
classify_chunk(chunk) ==
    LET lines == chunk.lines
        text == full_text(lines)
        n == Len(lines)
        total == SumSizes(lines)   \* avg_size >= x  iff  total >= x * n
        is_bold == \E k \in 1..n : lines[k].bold
        is_short_heading == Len(text) < ShortHeadingLen
        starts_with_unordered ==
            LStrip(text) # <<>> /\ Head(LStrip(text)) \in unordered_markers
        starts_with_ordered == ordered_pattern(LStrip(text))
    IN IF starts_with_ordered THEN "ordered_list_item"
       ELSE IF starts_with_unordered THEN "list_item"
       ELSE IF total >= H1Size * n /\ is_bold /\ is_short_heading THEN "section_h1"
       ELSE IF H2Size * n <= total /\ total < H1Size * n /\ is_bold /\ is_short_heading
            THEN "section_h2"
       ELSE IF H3Size * n <= total /\ total < H2Size * n /\ is_bold /\ is_short_heading
            THEN "section_h3"
       ELSE IF has_reference(lines) THEN "reference"
       ELSE IF total < H3Size * n /\ ~ is_bold /\ Len(text) < CaptionLen THEN "caption"
       ELSE "paragraph"

\* hyperlinks[0] if hyperlinks else None
FirstHyperlink(lines) ==
    LET hyperlinks == SelectSeq([k \in 1..Len(lines) |-> lines[k].hyperlink_target], Truthy)
    IN IF hyperlinks # <<>> THEN hyperlinks[1] ELSE NoTarget

\* a chunk dict without an "items" key carries it as absent
NoItemsKey == [present |-> FALSE, elems |-> <<>>]

\* the dict process_structure appends for group number idx (0-based)
NewChunk(chunk, idx) ==
    [chunk_id |-> ChunkId(idx),
     page_start |-> chunk.page_start,
     page_end |-> chunk.page_end,
     type |-> classify_chunk(chunk),
     font_size |-> avg_size(chunk.lines),
     text |-> full_text(chunk.lines),
     bbox |-> chunk.lines[1].bbox,
     hyperlink_target |-> FirstHyperlink(chunk.lines),
     items |-> NoItemsKey]

IsListItemType(t) == t \in {"list_item", "ordered_list_item"}

\* RunEnd running on over list items of the other list type too
RECURSIVE RunEndAnyList(_, _, _, _)
RunEndAnyList(h, refs, i, current_type) ==
    IF i <= Len(refs) /\ h[refs[i]].type \in {"list_item", "ordered_list_item"}
    THEN RunEndAnyList(h, refs, i + 1, current_type)
    ELSE i

\* the end (exclusive) of the run of chunks of type current_type starting at i
RECURSIVE RunEnd(_, _, _, _)
RunEnd(h, refs, i, current_type) ==
    IF i <= Len(refs) /\ h[refs[i]].type = current_type
    THEN RunEnd(h, refs, i + 1, current_type)
    ELSE i

\* ListBlock joining the texts with a space, as merge_adjacent_headings does
ListBlockSpaceJoined(list_items) ==
    LET first == list_items[1]
        last == list_items[Len(list_items)]
        texts == [k \in 1..Len(list_items) |-> list_items[k].text]
    IN [chunk_id |-> first.chunk_id,
        page_start |-> first.page_start,
        page_end |-> last.page_end,
        type |-> IF first.type = "ordered_list_item"
                 THEN "ordered_list_block" ELSE "list_block",
        font_size |-> first.font_size,
        text |-> Join(texts, <<" ">>),
        bbox |-> first.bbox,
        hyperlink_target |-> [kind |-> "none", num |-> 0, text |-> <<>>],
        items |-> [present |-> TRUE, elems |-> texts]]

\* the dict group_lists appends for the run list_items
ListBlock(list_items) ==
    LET first == list_items[1]
        last == list_items[Len(list_items)]
        texts == [k \in 1..Len(list_items) |-> list_items[k].text]
    IN [chunk_id |-> first.chunk_id,
        page_start |-> first.page_start,
        page_end |-> last.page_end,
        type |-> IF first.type = "ordered_list_item"
                 THEN "ordered_list_block" ELSE "list_block",
        font_size |-> first.font_size,
        text |-> Join(texts, <<"\n">>),
        bbox |-> first.bbox,
        hyperlink_target |-> NoTarget,
        items |-> [present |-> TRUE, elems |-> texts]]

\* the while loop of group_lists from index i on: h is the heap, grouped the
\* list built so far; a block is a new object, any other chunk is passed on
RECURSIVE GroupListsLoop(_, _, _, _)
GroupListsLoop(h, refs, i, grouped) ==
    IF i > Len(refs) THEN [heap |-> h, out |-> grouped]
    ELSE IF IsListItemType(h[refs[i]].type)
    THEN LET j == RunEnd(h, refs, i + 1, h[refs[i]].type)
             list_items == [k \in 1..(j - i) |-> h[refs[i + k - 1]]]
             h2 == Append(h, ListBlock(list_items))
         IN GroupListsLoop(h2, refs, j, Append(grouped, Len(h2)))
    ELSE GroupListsLoop(h, refs, i + 1, Append(grouped, refs[i]))

\* group_lists(chunks)
group_lists(h, refs) == GroupListsLoop(h, refs, 1, <<>>)

\* current["type"].startswith("section")
IsSectionType(t) == t \in {"section_h1", "section_h2", "section_h3"}

\* MergeRun taking in every following heading, whatever its heading type
RECURSIVE MergeRunAnyHeading(_, _, _, _)
MergeRunAnyHeading(h, refs, current, j) ==
    IF j <= Len(refs) /\ IsSectionType(h[refs[j]].type)
    THEN MergeRunAnyHeading(
             [h EXCEPT ![current].text = @ \o <<" ">> \o h[refs[j]].text,
                       ![current].page_end = h[refs[j]].page_end],
             refs, current, j + 1)
    ELSE [heap |-> h, j |-> j]

\* the inner while loop of merge_adjacent_headings: current (a reference) is
\* updated in place for every following chunk of its type
RECURSIVE MergeRun(_, _, _, _)
MergeRun(h, refs, current, j) ==
    IF j <= Len(refs) /\ h[refs[j]].type = h[current].type
    THEN MergeRun([h EXCEPT ![current].text = @ \o <<" ">> \o h[refs[j]].text,
                            ![current].page_end = h[refs[j]].page_end],
                  refs, current, j + 1)
    ELSE [heap |-> h, j |-> j]

\* the outer while loop of merge_adjacent_headings from index i on
RECURSIVE MergeLoop(_, _, _, _)
MergeLoop(h, refs, i, out) ==
    IF i > Len(refs) THEN [heap |-> h, out |-> out]
    ELSE IF IsSectionType(h[refs[i]].type)
    THEN LET run == MergeRun(h, refs, refs[i], i + 1)
         IN MergeLoop(run.heap, refs, run.j, Append(out, refs[i]))
    ELSE MergeLoop(h, refs, i + 1, Append(out, refs[i]))

\* merge_adjacent_headings(chunks)
merge_adjacent_headings(h, refs) == MergeLoop(h, refs, 1, <<>>)

\* process_structure(spans): a call that returns the list `result`
ProcessStructure ==
    /\ cpc = "start"
    /\ LET raw == group_into_chunks(spans)
           h0 == [k \in 1..Len(raw) |-> NewChunk(raw[k], k - 1)]
           refs == [k \in 1..Len(raw) |-> k]
           g == group_lists(h0, refs)
       IN /\ chunks_raw' = raw
          /\ classified' = refs
          /\ heap' = g.heap
          /\ result' = g.out
    /\ cpc' = "structured"
    /\ UNCHANGED <<graphVars, rerunVars, spans, merged>>

\* merge_adjacent_headings(result): a call on the list process_structure returned
MergeAdjacentHeadings ==
    /\ cpc = "structured"
    /\ LET m == merge_adjacent_headings(heap, result)
       IN /\ heap' = m.heap
          /\ merged' = m.out
    /\ cpc' = "merged"
    /\ UNCHANGED <<graphVars, rerunVars, spans, chunks_raw, classified, result>>

(***************************************************************************)
(* Inputs of the chunker specification.                                    *)
(***************************************************************************)
SpanKinds ==
    { [text |-> <<"T">>, size |-> 1600, bold |-> TRUE],
      [text |-> <<"p">>, size |-> 1100, bold |-> FALSE],
      [text |-> <<"-", " ", "a">>, size |-> 1100, bold |-> FALSE],
      [text |-> <<"1", ".", " ", "a">>, size |-> 1100, bold |-> FALSE],
      [text |-> <<"BULLET">>, size |-> 1100, bold |-> FALSE] }

SpanPages == {1, 2}
SpanTops == {100, 120}

SpanOf(k, page, top) ==
    [page |-> page, text |-> k.text, bbox |-> <<0, top, 50, top + 8>>,
     font |-> "F", size |-> k.size, color |-> 0, bold |-> k.bold, italic |-> FALSE,
     hyperlink_target |-> NoTarget]

SpanPool == {SpanOf(k, p, y) : k \in SpanKinds, p \in SpanPages, y \in SpanTops}

\* parse_pdf emits the spans page by page
PagesInOrder(sp) == \A k \in 1..(Len(sp) - 1) : sp[k].page <= sp[k + 1].page

GraphIdle ==
    /\ chunks_csv = <<>>
    /\ figures_csv = <<>>
    /\ pc = "idle"
    /\ error = "none"
    /\ font_to_level = <<>>
    /\ row_idx = 1
    /\ section_nodes = <<>>
    /\ edges = <<>>
    /\ section_stack = <<>>
    /\ files = NoFiles
    /\ seen_ids = {}

InitChunker ==
    /\ spans \in {sp \in SeqsUpTo(SpanPool, MaxSpans) : PagesInOrder(sp)}
    /\ cpc = "start"
    /\ chunks_raw = <<>>
    /\ heap = <<>>
    /\ classified = <<>>
    /\ result = <<>>
    /\ merged = <<>>
    /\ GraphIdle
    /\ FirstRun

NextChunker ==
    \/ ProcessStructure
    \/ MergeAdjacentHeadings

\* the chunker called on a span sequence
SpecChunker == InitChunker /\ [][NextChunker]_vars

(***************************************************************************)
(* The chunker called on spans that carry link targets: parse_pdf sets      *)
(* hyperlink_target to the 0-based page number of an internal link, to the *)
(* URI of an external link, and to None for a span under no link.          *)
(***************************************************************************)
LinkSpanKinds ==
    { [text |-> <<"p">>, size |-> 1100, bold |-> FALSE],
      [text |-> <<"-", " ", "a">>, size |-> 1100, bold |-> FALSE] }

LinkTargets ==
    { NoTarget,
      [kind |-> "int", num |-> 0, text |-> <<>>],
      [kind |-> "int", num |-> 3, text |-> <<>>],
      [kind |-> "str", num |-> 0, text |-> TextUrlA] }

LinkSpanPool ==
    {[SpanOf(k, 1, y) EXCEPT !.hyperlink_target = t] :
        k \in LinkSpanKinds, y \in SpanTops, t \in LinkTargets}

InitChunkerLinks ==
    /\ spans \in SeqsUpTo(LinkSpanPool, MaxSpans)
    /\ cpc = "start"
    /\ chunks_raw = <<>>
    /\ heap = <<>>
    /\ classified = <<>>
    /\ result = <<>>
    /\ merged = <<>>
    /\ GraphIdle
    /\ FirstRun

SpecChunkerLinks == InitChunkerLinks /\ [][NextChunker]_vars

(***************************************************************************)
(* The chunker called on spans of one page that differ in style and in     *)
(* vertical distance: the base style, and one style per attribute changed. *)
(***************************************************************************)
BaseStyle ==
    [text |-> <<"p">>, font |-> "F", size |-> 1100, bold |-> FALSE, italic |-> FALSE,
     color |-> 0]

SpanStyles ==
    { BaseStyle,
      [BaseStyle EXCEPT !.text = <<"BULLET">>],
      [BaseStyle EXCEPT !.font = "G"],
      [BaseStyle EXCEPT !.size = 1300],
      [BaseStyle EXCEPT !.size = 1299],
      [BaseStyle EXCEPT !.bold = TRUE],
      [BaseStyle EXCEPT !.italic = TRUE],
      [BaseStyle EXCEPT !.color = 9],
      [BaseStyle EXCEPT !.color = 10] }

\* tops 6, 7, 10 and 11 below the bottom (108) of a span at top 100
StyledTops == {100, 114, 115, 118, 119}

StyledSpanOf(st, top) ==
    [SpanOf([text |-> st.text, size |-> st.size, bold |-> st.bold], 1, top)
        EXCEPT !.font = st.font, !.italic = st.italic, !.color = st.color]

StyledSpanPool == {StyledSpanOf(st, y) : st \in SpanStyles, y \in StyledTops}

InitGrouping ==
    /\ spans \in SeqsUpTo(StyledSpanPool, MaxStyledSpans)
    /\ cpc = "start"
    /\ chunks_raw = <<>>
    /\ heap = <<>>
    /\ classified = <<>>
    /\ result = <<>>
    /\ merged = <<>>
    /\ GraphIdle
    /\ FirstRun

SpecGrouping == InitGrouping /\ [][NextChunker]_vars

(***************************************************************************)
(* The chunker called on spans whose texts begin like list items or nearly *)
(* so, in body type and in bold heading type.                              *)
(***************************************************************************)
LeadTexts ==
    { <<"1", ".", " ", "D", "o", " ", "X">>,
      <<"1", "2", ")", " ", "a">>,
      <<"1", ".", "a">>,
      <<"1", " ", "a">>,
      <<"a", ")", " ", "x">>,
      <<"B", ")", " ", "x">>,
      <<"cyr_b", ")", " ", "x">>,
      <<"CYR_B", ")", " ", "x">>,
      <<"a", "b", ")", " ", "x">>,
      <<"a", ".", " ", "x">>,
      <<"-", " ", "a">>,
      <<"-", " ", "cyr_r", "cyr_i", "cyr_s">>,
      <<"p">> }

TextSpanPool ==
    {SpanOf([text |-> t, size |-> st.size, bold |-> st.bold], 1, y) :
        t \in LeadTexts,
        st \in {[size |-> 1100, bold |-> FALSE], [size |-> 1600, bold |-> TRUE]},
        y \in SpanTops}

InitClassify ==
    /\ spans \in SeqsUpTo(TextSpanPool, MaxTextSpans)
    /\ cpc = "start"
    /\ chunks_raw = <<>>
    /\ heap = <<>>
    /\ classified = <<>>
    /\ result = <<>>
    /\ merged = <<>>
    /\ GraphIdle
    /\ FirstRun

SpecClassify == InitClassify /\ [][NextChunker]_vars

(***************************************************************************)
(* The chunker called on spans at and next to the size thresholds, bold    *)
(* and not, with texts at and next to the length thresholds and with a     *)
(* figure marker ("Рис.").                                                 *)
(***************************************************************************)
Filler(n) == [i \in 1..n |-> "x"]

SizedTexts ==
    { <<"T">>,
      <<"CYR_R", "cyr_i", "cyr_s", ".">>,
      Filler(99), Filler(100), Filler(159), Filler(160) }

SizedSizes == {1100, 1199, 1200, 1349, 1350, 1599, 1600}

SizedSpanPool ==
    {SpanOf([text |-> t, size |-> z, bold |-> b], 1, 100) :
        t \in SizedTexts, z \in SizedSizes, b \in BOOLEAN}

InitSizes ==
    /\ spans \in SeqsUpTo(SizedSpanPool, MaxSizedSpans)
    /\ cpc = "start"
    /\ chunks_raw = <<>>
    /\ heap = <<>>
    /\ classified = <<>>
    /\ result = <<>>
    /\ merged = <<>>
    /\ GraphIdle
    /\ FirstRun

SpecSizes == InitSizes /\ [][NextChunker]_vars

(***************************************************************************)
(* Inputs with headings of two sizes, for merge_adjacent_headings.         *)
(***************************************************************************)
HeadingKinds ==
    { [text |-> <<"T">>, size |-> 1600, bold |-> TRUE],
      [text |-> <<"U">>, size |-> 1350, bold |-> TRUE],
      [text |-> <<"p">>, size |-> 1100, bold |-> FALSE] }

HeadingSpanPool ==
    {SpanOf(k, p, y) : k \in HeadingKinds, p \in SpanPages, y \in SpanTops}

InitHeadings ==
    /\ spans \in {sp \in SeqsUpTo(HeadingSpanPool, MaxHeadingSpans) : PagesInOrder(sp)}
    /\ cpc = "start"
    /\ chunks_raw = <<>>
    /\ heap = <<>>
    /\ classified = <<>>
    /\ result = <<>>
    /\ merged = <<>>
    /\ GraphIdle
    /\ FirstRun

SpecHeadings == InitHeadings /\ [][NextChunker]_vars

(***************************************************************************)
(* Running again on the same input.  main.py run again is a new process:   *)
(* every object is built anew, the files of the earlier run are still on   *)
(* disk and are overwritten stage by stage.  process_structure called      *)
(* again builds its lists and dicts anew.                                  *)
(***************************************************************************)
RunAgain ==
    /\ pc \in {"done", "failed"}
    /\ runs + 1 < MaxRuns
    /\ first_files' = IF runs = 0 THEN files ELSE first_files
    /\ runs' = runs + 1
    /\ pc' = "sections"
    /\ error' = "none"
    /\ font_to_level' = <<>>
    /\ row_idx' = 1
    /\ section_nodes' = <<>>
    /\ edges' = <<>>
    /\ section_stack' = <<>>
    /\ seen_ids' = {}
    /\ rebuilt' = NotRebuilt
    /\ UNCHANGED <<chunks_csv, figures_csv, files, chunkerVars, first_chunks>>

\* the chunk dicts a list of references stands for
ChunksOf(refs) == [k \in 1..Len(refs) |-> heap[refs[k]]]

ProcessAgain ==
    /\ cpc = "structured"
    /\ runs + 1 < MaxRuns
    /\ first_chunks' = IF runs = 0 THEN ChunksOf(result) ELSE first_chunks
    /\ runs' = runs + 1
    /\ cpc' = "start"
    /\ chunks_raw' = <<>>
    /\ heap' = <<>>
    /\ classified' = <<>>
    /\ result' = <<>>
    /\ merged' = <<>>
    /\ UNCHANGED <<graphVars, spans, first_files, rebuilt>>

InitRerun == Init \/ InitChunker

NextRerun ==
    \/ Next
    \/ NextChunker
    \/ BuildHyperlinksAgain
    \/ RunAgain
    \/ ProcessAgain

SpecRerun == InitRerun /\ [][NextRerun]_vars

(***************************************************************************)
(* Properties of the section hierarchy (SpecHier).                         *)
(***************************************************************************)
IsSub(e) == e.relation = "HAS_SUBSECTION"
IsHasChunk(e) == e.relation = "HAS_CHUNK"

SubEdges == SelectSeq(edges, IsSub)

ParentsOf(id) == {e.source : e \in {x \in Range(edges) : IsSub(x) /\ x.target = id}}

RECURSIVE AncestorsOf(_, _)
AncestorsOf(id, fuel) ==
    IF fuel = 0 THEN {}
    ELSE LET P == ParentsOf(id)
         IN P \cup UNION {AncestorsOf(p, fuel - 1) : p \in P}

\* C4: the HAS_SUBSECTION edges form a forest over the sections: a section is
\* the target of at most one such edge, no section is its own ancestor, the
\* source of an edge has a strictly smaller level than its target and was
\* created earlier, and a level-1 section is never a target.
Thm_C4_Forest ==
    /\ \A k \in 1..Len(section_nodes) :
          LET id == section_nodes[k].id IN
          /\ Cardinality({i \in 1..Len(edges) :
                            IsSub(edges[i]) /\ edges[i].target = id}) <= 1
          /\ id \notin AncestorsOf(id, Len(section_nodes))
          /\ section_nodes[k].level = 1 => ParentsOf(id) = {}
    /\ \A i \in 1..Len(edges) : IsSub(edges[i]) =>
          \E a, b \in 1..Len(section_nodes) :
             /\ a < b
             /\ section_nodes[a].id = edges[i].source
             /\ section_nodes[b].id = edges[i].target
             /\ section_nodes[a].level < section_nodes[b].level

\* a finished traversal with two subsection edges and a level-1 section that
\* closed an open level-2 section
Wit_C4_Forest ==
    /\ pc = "sections_done"
    /\ Len(SubEdges) >= 2
    /\ \E a, b \in 1..Len(section_nodes) :
          a < b /\ section_nodes[a].level = 2 /\ section_nodes[b].level = 1

\* the row about to be processed is a heading (level > 0)
HeadingIsNext ==
    /\ pc = "traverse"
    /\ row_idx <= Len(chunks_csv)
    /\ get_section_level(font_to_level, chunks_csv[row_idx]) > 0

\* what the step on a heading row must do
HeadingStepEffect ==
    LET row == chunks_csv[row_idx]
        level == get_section_level(font_to_level, row)
        sid == SectionNodeId(row.chunk_id)
        kept == SelectSeq(section_stack, LAMBDA s : s.level < level)
        sub == IF kept # <<>>
               THEN <<Edge(kept[Len(kept)].id, sid, "HAS_SUBSECTION")>>
               ELSE <<>>
    IN /\ section_stack' = Append(kept, [id |-> sid, level |-> level])
       /\ edges' = edges \o sub \o <<Edge(sid, ChunkNodeId(row.chunk_id), "HAS_CHUNK")>>

\* [H1(16), P, H2(14), P, H1'(16), P]
Example4Chunks ==
    LET ks == << [type |-> "paragraph", font_size |-> 1600],
                 [type |-> "paragraph", font_size |-> 1100],
                 [type |-> "paragraph", font_size |-> 1400],
                 [type |-> "paragraph", font_size |-> 1100],
                 [type |-> "paragraph", font_size |-> 1600],
                 [type |-> "paragraph", font_size |-> 1100] >>
    IN [i \in 1..6 |-> ChunkRowOf(ks[i], i - 1)]

Example4Done == chunks_csv = Example4Chunks /\ pc = "sections_done"

\* C5: on a chunk with level > 0 every stack entry with level >= that level
\* is popped; if the stack is then non-empty exactly one HAS_SUBSECTION edge
\* from the remaining top to the new section is emitted, otherwise none; the
\* new section is pushed; exactly one HAS_CHUNK edge from the new section to
\* its own chunk is emitted.  For [H1, P, H2, P, H1', P] the only
\* HAS_SUBSECTION edge is H1 -> H2.
Thm_C5_HeadingStep ==
    /\ [][HeadingIsNext => HeadingStepEffect]_vars
    /\ [](Example4Done =>
            SubEdges = <<Edge("section_ch0000", "section_ch0002", "HAS_SUBSECTION")>>)

\* Example 4 traversed to the end: H1' is the only open section
Wit_C5_HeadingStep ==
    /\ Example4Done
    /\ section_stack = <<[id |-> "section_ch0004", level |-> 1]>>
    /\ Len(edges) = 7

LevelAt(i) == get_section_level(font_to_level, chunks_csv[i])

\* positions of the HAS_CHUNK edges whose target is the chunk of row i
HasChunkInto(i) ==
    {k \in 1..Len(edges) :
        IsHasChunk(edges[k]) /\ edges[k].target = ChunkNodeId(chunks_csv[i].chunk_id)}

\* rows before row i that were promoted to sections
SectionsBefore(i) == {j \in 1..(i - 1) : LevelAt(j) > 0}

\* C6: a processed non-heading chunk is the target of exactly one HAS_CHUNK
\* edge, from the stack top (the most recently opened section), if a section
\* was created before it, and of none otherwise, the traversal going on without
\* error; no chunk is the target of two HAS_CHUNK edges.
Thm_C6_Attach ==
    /\ \A i \in 1..(row_idx - 1) :
          /\ Cardinality(HasChunkInto(i)) <= 1
          /\ LevelAt(i) = 0 =>
                IF SectionsBefore(i) # {}
                THEN \E k \in HasChunkInto(i) :
                        /\ HasChunkInto(i) = {k}
                        /\ edges[k].source =
                             SectionNodeId(chunks_csv[SetMax(SectionsBefore(i))].chunk_id)
                ELSE HasChunkInto(i) = {} /\ error = "none"
    /\ pc = "traverse" =>
          IF SectionsBefore(row_idx) = {}
          THEN section_stack = <<>>
          ELSE /\ section_stack # <<>>
               /\ section_stack[Len(section_stack)].id =
                     SectionNodeId(chunks_csv[SetMax(SectionsBefore(row_idx))].chunk_id)

\* an orphan chunk before the first section, a chunk attached to an open
\* level-2 section, and a chunk attached to a level-1 section that closed it
Wit_C6_Attach ==
    /\ pc = "sections_done"
    /\ Len(chunks_csv) = 6
    /\ LevelAt(1) = 0 /\ LevelAt(2) = 1 /\ LevelAt(3) = 2
    /\ LevelAt(4) = 0 /\ LevelAt(5) = 1 /\ LevelAt(6) = 0
    /\ HasChunkInto(1) = {}
    /\ \E k \in HasChunkInto(4) : edges[k].source = "section_ch0002"
    /\ \E k \in HasChunkInto(6) : edges[k].source = "section_ch0004"

\* no paragraph-typed chunk has font_size > 12
NoCandidateSize ==
    ~ \E i \in 1..Len(chunks_csv) :
         chunks_csv[i].type = "paragraph" /\ chunks_csv[i].font_size > 1200

HierarchyFailedCleanly ==
    NoCandidateSize /\ pc # "sections" =>
       /\ pc = "failed"
       /\ error = "ValueError"
       /\ section_nodes = <<>>
       /\ edges = <<>>
       /\ ~ files.nodes_sections.exists
       /\ ~ files.edges_sections.exists

\* C7: without a paragraph-typed chunk of font_size > 12 the hierarchy stage
\* fails with an error, produces no section node and no edge, writes neither
\* section table, and leaves the chunk sequence artifact unchanged.
Thm_C7_NoLevels ==
    /\ []HierarchyFailedCleanly
    /\ [][chunks_csv' = chunks_csv]_vars

\* the stage has failed on a table holding a small paragraph and a large
\* chunk that is not paragraph-typed
Wit_C7_NoLevels ==
    /\ pc = "failed"
    /\ error = "ValueError"
    /\ \E i, j \in 1..Len(chunks_csv) :
          /\ chunks_csv[i].type = "paragraph" /\ chunks_csv[i].font_size = 1100
          /\ chunks_csv[j].type = "section_h1" /\ chunks_csv[j].font_size = 1600

\* detect_section_levels has returned the level map
LevelsDetected == pc \in {"traverse", "sections_done"}

\* the font sizes > 12 of the paragraph-typed chunks
CandidateSizes ==
    {chunks_csv[i].font_size : i \in {j \in 1..Len(chunks_csv) :
        chunks_csv[j].type = "paragraph" /\ chunks_csv[j].font_size > MinHeadingSize}}

\* C25: detect_section_levels looks only at the font sizes > 12 of
\* paragraph-typed chunks, maps the largest to level 1 and the second largest
\* (if any) to level 2, and maps no other size: the map has one or two
\* entries, the level-1 size is greater than the level-2 size, and with a
\* single candidate size every section is level 1.
Thm_C25_LevelMap ==
    LevelsDetected =>
        LET largest == SetMax(CandidateSizes)
            rest == CandidateSizes \ {largest}
        IN /\ CandidateSizes # {}
           /\ Len(font_to_level) \in {1, 2}
           /\ font_to_level[1] = largest
           /\ IF rest = {} THEN Len(font_to_level) = 1
              ELSE /\ Len(font_to_level) = 2
                   /\ font_to_level[2] = SetMax(rest)
                   /\ font_to_level[1] > font_to_level[2]
           /\ \A i \in 1..Len(chunks_csv) :
                 LET size == chunks_csv[i].font_size
                     level == LevelOfSize(font_to_level, size)
                 IN /\ level = 1 <=> size = largest
                    /\ level = 2 <=> (rest # {} /\ size = SetMax(rest))
                    /\ level \in {0, 1, 2}
           /\ rest = {} => \A k \in 1..Len(section_nodes) : section_nodes[k].level = 1

\* three paragraph sizes above 12: 16 is level 1, 14 is level 2, and the
\* paragraph of size 13 gets no level and opens no section
Wit_C25_LevelMap ==
    /\ pc = "sections_done"
    /\ CandidateSizes = {1600, 1400, 1300}
    /\ font_to_level = <<1600, 1400>>
    /\ Len(chunks_csv) = 3
    /\ Len(section_nodes) = 2

\* row i is paragraph-typed and its font size is one of the mapped sizes
Promoted(i) ==
    /\ chunks_csv[i].type = "paragraph"
    /\ chunks_csv[i].font_size \in Range(font_to_level)

PromotedBefore(i) == {j \in 1..(i - 1) : Promoted(j)}

\* the section nodes made from the chunk of row i
SectionsOf(i) ==
    {k \in 1..Len(section_nodes) : section_nodes[k].chunk_id = chunks_csv[i].chunk_id}

\* C26: a chunk is promoted to a Section if and only if its type is paragraph
\* and its font_size is one of the mapped level sizes; a chunk of another
\* type never becomes a section and never influences the level map, whatever
\* its font size, and is attached like any other non-heading chunk; the
\* number of Section nodes equals the number of promoted chunks.
Thm_C26_Promotion ==
    LevelsDetected =>
        /\ Range(font_to_level) \subseteq CandidateSizes
        /\ Len(section_nodes) = Cardinality(PromotedBefore(row_idx))
        /\ \A i \in 1..(row_idx - 1) :
              /\ Cardinality(SectionsOf(i)) = IF Promoted(i) THEN 1 ELSE 0
              /\ \A k \in SectionsOf(i) :
                    section_nodes[k].id = SectionNodeId(chunks_csv[i].chunk_id)
              /\ chunks_csv[i].type # "paragraph" =>
                    IF PromotedBefore(i) = {}
                    THEN HasChunkInto(i) = {}
                    ELSE \E k \in HasChunkInto(i) :
                            /\ HasChunkInto(i) = {k}
                            /\ edges[k].source =
                                  SectionNodeId(chunks_csv[SetMax(PromotedBefore(i))].chunk_id)

\* a 16pt paragraph opens a section, and the 16pt section_h1 chunk after it
\* opens none and hangs under that section
Wit_C26_Promotion ==
    /\ pc = "sections_done"
    /\ Len(chunks_csv) = 2
    /\ chunks_csv[1].type = "paragraph" /\ chunks_csv[1].font_size = 1600
    /\ chunks_csv[2].type = "section_h1" /\ chunks_csv[2].font_size = 1600
    /\ font_to_level = <<1600>>
    /\ Len(section_nodes) = 1
    /\ \E k \in HasChunkInto(2) : edges[k].source = "section_ch0000"

\* the position in section_nodes of the section with the given id
SectionIndex(id) == CHOOSE k \in 1..Len(section_nodes) : section_nodes[k].id = id

\* the level-1 sections created before the section at position b
Level1Before(b) == {a \in 1..(b - 1) : section_nodes[a].level = 1}

\* C27: at every step of the traversal the section stack has levels strictly
\* increasing from bottom to top, so it holds at most two entries; its top
\* is the most recently created section; once a section has been pushed it
\* is never empty again.  Every HAS_SUBSECTION edge goes from a level-1
\* section to a level-2 section, its source being the most recent level-1
\* section created before the target.
Thm_C27_StackShape ==
    /\ \A k \in 1..(Len(section_stack) - 1) :
          section_stack[k].level < section_stack[k + 1].level
    /\ Len(section_stack) <= 2
    /\ IF section_nodes = <<>> THEN section_stack = <<>>
       ELSE /\ section_stack # <<>>
            /\ section_stack[Len(section_stack)] =
                  [id |-> section_nodes[Len(section_nodes)].id,
                   level |-> section_nodes[Len(section_nodes)].level]
    /\ \A i \in 1..Len(edges) : IsSub(edges[i]) =>
          /\ \E k \in 1..Len(section_nodes) : section_nodes[k].id = edges[i].source
          /\ \E k \in 1..Len(section_nodes) : section_nodes[k].id = edges[i].target
          /\ LET a == SectionIndex(edges[i].source)
                 b == SectionIndex(edges[i].target)
             IN /\ section_nodes[a].level = 1
                /\ section_nodes[b].level = 2
                /\ Level1Before(b) # {}
                /\ a = SetMax(Level1Before(b))

\* sections of levels 1, 2, 1, 2 in this order: the second level-2 section
\* hangs under the second level-1 section, and both are open at the end
Wit_C27_StackShape ==
    /\ pc = "sections_done"
    /\ Len(section_nodes) = 4
    /\ section_nodes[1].level = 1 /\ section_nodes[2].level = 2
    /\ section_nodes[3].level = 1 /\ section_nodes[4].level = 2
    /\ Len(section_stack) = 2
    /\ section_stack[1].id = section_nodes[3].id
    /\ \E i \in 1..Len(edges) :
          /\ IsSub(edges[i])
          /\ edges[i].source = section_nodes[3].id
          /\ edges[i].target = section_nodes[4].id

(***************************************************************************)
(* Properties of the assembled graph (Spec).                               *)
(***************************************************************************)
NodeIds(nodes) == {nodes[k].id : k \in 1..Len(nodes)}

\* an edge with an endpoint that is no node's id
IsDangling(e, nodes) == e.source \notin NodeIds(nodes) \/ e.target \notin NodeIds(nodes)

\* GraphBuilder.build has returned normally
GraphBuilt == pc = "done"

\* GraphBuilder.build has run, to its end or to an exception
GraphBuildOver == pc = "done" \/ (pc = "failed" /\ error = "EmptyDataError")

\* C1: after the five stages have run, every edge of the assembled edge set
\* has a source and a target that are ids of nodes of the assembled node set
\* (the CAPTIONS edge of a figure row's caption_chunk included).
Cex_C1_NoDanglingEdge ==
    GraphBuilt =>
        \A k \in 1..Len(files.all_edges.rows) :
            ~ IsDangling(files.all_edges.rows[k], files.all_nodes.rows)

\* C2: if an edge handed to graph assembly has a source or target that is not
\* the id of an assembled node, GraphBuilder.build ends in an error and does
\* not write the unified tables.
Cex_C2_DanglingIsFatal ==
    (GraphBuildOver /\ \E k \in 1..Len(AssembledEdges) :
                           IsDangling(AssembledEdges[k], AssembledNodes))
    => /\ pc = "failed"
       /\ error # "none"
       /\ ~ files.all_nodes.exists
       /\ ~ files.all_edges.exists

\* C3: no two nodes of the assembled node set written by GraphBuilder.build
\* have the same id.
Cex_C3_UniqueNodeIds ==
    GraphBuilt =>
        \A i, j \in 1..Len(files.all_nodes.rows) :
            i # j => files.all_nodes.rows[i].id # files.all_nodes.rows[j].id

\* HyperlinkExtractor.build has returned and its tables are written
HyperlinksBuilt == files.nodes_hyperlinks.exists

\* the rows of chunks.csv with a non-empty hyperlink_target
LinkedRows ==
    {i \in 1..Len(chunks_csv) :
        /\ ~ chunks_csv[i].hyperlink_target.null
        /\ Strip(chunks_csv[i].hyperlink_target.text) # <<>>}

TargetOf(i) == Strip(chunks_csv[i].hyperlink_target.text)

\* the identifier derived from the target of row i: ref_<number> for a
\* numeric target, url_<hash> for any other
DerivedId(i) ==
    IF IntParses(TargetOf(i)) THEN "ref_" \o Str(TargetOf(i))
    ELSE "url_" \o Md5Hex12(TargetOf(i))

\* the first row, in sequence order, that gives the identifier id
FirstRowOf(id) == CHOOSE i \in LinkedRows :
    DerivedId(i) = id /\ \A j \in LinkedRows : DerivedId(j) = id => i <= j

\* C13: HyperlinkExtractor.build emits exactly one node per derived
\* identifier (ref_<number> for a numeric target, url_<hash> for any other
\* non-empty target), carrying the value of the first chunk that gave the
\* identifier, and exactly one LINKS_TO edge per chunk with a non-empty
\* target, from the chunk to the identifier: "12" in two chunks gives one
\* ReferenceTarget node ref_12 and two LINKS_TO edges.
Cex_C13_HyperlinkDedup ==
    HyperlinksBuilt =>
        LET N == files.nodes_hyperlinks.rows
            E == files.edges_hyperlinks.rows
            ids == {DerivedId(i) : i \in LinkedRows}
        IN /\ Len(N) = Cardinality(ids)
           /\ \A id \in ids :
                 \E k \in 1..Len(N) :
                    /\ N[k].id = id
                    /\ N[k].value = TargetOf(FirstRowOf(id))
                    /\ N[k].label = IF IntParses(TargetOf(FirstRowOf(id)))
                                    THEN "ReferenceTarget" ELSE "Url"
           /\ Len(E) = Cardinality(LinkedRows)
           /\ \A i \in LinkedRows :
                 \E k \in 1..Len(E) :
                    E[k] = Edge(ChunkNodeId(chunks_csv[i].chunk_id), DerivedId(i),
                                "LINKS_TO")

\* FigureGraphBuilder.build has returned and its tables are written
FiguresBuilt == files.nodes_figures.exists

\* the first row of figures.csv with figure identifier fid
FirstFigureRow(fid) ==
    figures_csv[CHOOSE k \in 1..Len(figures_csv) :
                    /\ figures_csv[k].figure_id = fid
                    /\ \A j \in 1..(k - 1) : figures_csv[j].figure_id # fid]

\* C14: when figures.csv holds several rows with one figure identifier,
\* FigureGraphBuilder.build emits exactly one Figure node for the identifier
\* and at most one CAPTIONS edge, that of the first such row; the later rows
\* are dropped.
Cex_C14_FigureFirstWins ==
    FiguresBuilt =>
        \A fid \in {figures_csv[k].figure_id : k \in 1..Len(figures_csv)} :
            LET N == files.nodes_figures.rows
                E == files.edges_figures.rows
            IN /\ Cardinality({k \in 1..Len(N) : N[k].id = FigureNodeId(fid)}) = 1
               /\ SelectSeq(E, LAMBDA e : e.target = FigureNodeId(fid))
                     = FigureEdgesOf(FirstFigureRow(fid))

\* the rows of chunks.csv whose items payload ast.literal_eval rejects
Unparsable == {i \in 1..Len(chunks_csv) : chunks_csv[i].items.kind = "garbage"}

\* the tables of the other extractors are ones GraphBuilder.build can read
OtherTablesReadable ==
    \A f \in {files.nodes_sections, files.edges_sections, files.nodes_figures,
              files.edges_figures, files.nodes_hyperlinks, files.edges_hyperlinks} :
        f.exists /\ ~ ReadFails(f)

\* C15: a chunk whose items payload cannot be parsed yields an empty item
\* list: ListItemExtractor.build emits no ListItem node and no HAS_ITEM edge
\* for it, raises no error and still processes the remaining chunks, and the
\* chunk stays in the chunk sequence: it becomes a Chunk node of the
\* assembled graph.
Cex_C15_UnparsableItems ==
    \A i \in Unparsable :
        /\ files.nodes_list_items.exists =>
              /\ \A k \in 1..Len(files.nodes_list_items.rows) :
                    files.nodes_list_items.rows[k].chunk_id # chunks_csv[i].chunk_id
              /\ \A k \in 1..Len(files.edges_list_items.rows) :
                    files.edges_list_items.rows[k].source
                        # ChunkNodeId(chunks_csv[i].chunk_id)
              /\ \A j \in 1..Len(chunks_csv) :
                    parse_items(chunks_csv[j].items) # <<>> =>
                        \E k \in 1..Len(files.nodes_list_items.rows) :
                            files.nodes_list_items.rows[k].chunk_id
                                = chunks_csv[j].chunk_id
        /\ (GraphBuildOver /\ OtherTablesReadable) =>
              /\ GraphBuilt
              /\ \E k \in 1..Len(files.all_nodes.rows) :
                    files.all_nodes.rows[k].id = ChunkNodeId(chunks_csv[i].chunk_id)

(***************************************************************************)
(* Properties of the chunker (SpecChunker).                                *)
(***************************************************************************)
\* process_structure has returned
Structured == cpc \in {"structured", "merged"}

\* two neighbours of one heading type in a list of chunk references
AdjacentSameHeading(refs) ==
    \E k \in 1..(Len(refs) - 1) :
        /\ IsSectionType(heap[refs[k]].type)
        /\ heap[refs[k + 1]].type = heap[refs[k]].type

\* C8: the chunk sequence process_structure returns has had heading
\* coalescing applied: it never holds two adjacent chunks of the same
\* heading type.
Cex_C8_HeadingsCoalesced == Structured => ~ AdjacentSameHeading(result)

\* the heap as process_structure leaves it, computed afresh from the groups
StructuredHeap ==
    group_lists([k \in 1..Len(chunks_raw) |-> NewChunk(chunks_raw[k], k - 1)],
                [k \in 1..Len(chunks_raw) |-> k]).heap

\* C9: group_lists and merge_adjacent_headings leave every chunk record of
\* their input sequence unchanged (same text and page_end after the call as
\* before).
Cex_C9_InputsUnchanged ==
    Structured =>
       /\ \A k \in 1..Len(classified) :
             LET before == NewChunk(chunks_raw[k], k - 1)
                 after == heap[classified[k]]
             IN after.text = before.text /\ after.page_end = before.page_end
       /\ \A k \in 1..Len(result) :
             LET before == StructuredHeap[result[k]]
                 after == heap[result[k]]
             IN after.text = before.text /\ after.page_end = before.page_end

\* C10: for a span sequence with non-decreasing pages, every chunk produced
\* by group_into_chunks, process_structure (list blocks included) and
\* merge_adjacent_headings has page_start <= page_end.
Thm_C10_PageOrder ==
    PagesInOrder(spans) =>
       /\ \A k \in 1..Len(chunks_raw) :
             chunks_raw[k].page_start <= chunks_raw[k].page_end
       /\ \A r \in 1..Len(heap) : heap[r].page_start <= heap[r].page_end

\* a group that runs over a page break, merged into the heading before it
Wit_C10_PageOrder ==
    /\ cpc = "merged"
    /\ \E k \in 1..Len(chunks_raw) :
          /\ Len(chunks_raw[k].lines) >= 2
          /\ chunks_raw[k].page_start < chunks_raw[k].page_end
    /\ Len(merged) < Len(result)
    /\ \E k \in 1..Len(merged) :
          /\ IsSectionType(heap[merged[k]].type)
          /\ heap[merged[k]].page_start < heap[merged[k]].page_end

\* the number of classified chunks a chunk of the result stands for
Width(ref) == IF heap[ref].items.present THEN Len(heap[ref].items.elems) ELSE 1

\* the position in `classified` of the first chunk that result[k] stands for
RECURSIVE RunStart(_)
RunStart(k) == IF k = 1 THEN 1 ELSE RunStart(k - 1) + Width(result[k - 1])

\* the list blocks of the result, by position
ListBlocks == {k \in 1..Len(result) : heap[result[k]].items.present}

\* C11: for every list block produced by group_lists, joining its items in
\* order with a newline gives exactly the block's text, and items holds one
\* entry per list-item chunk of the run, in run order: the texts of the
\* maximal run of chunks of one list-item type the block replaces.
Thm_C11_ListRoundTrip ==
    Structured =>
        \A k \in ListBlocks :
            LET b == heap[result[k]]
                n == Len(b.items.elems)
                s == RunStart(k)
            IN /\ Join(b.items.elems, <<"\n">>) = b.text
               /\ n >= 1
               /\ s + n - 1 <= Len(classified)
               /\ \A m \in 1..n :
                     /\ b.items.elems[m] = heap[classified[s + m - 1]].text
                     /\ IsListItemType(heap[classified[s + m - 1]].type)
                     /\ heap[classified[s + m - 1]].type = heap[classified[s]].type
               /\ s + n <= Len(classified) =>
                     heap[classified[s + n]].type # heap[classified[s]].type

\* a list block standing for a run of two list-item chunks, after other chunks
Wit_C11_ListRoundTrip ==
    /\ Structured
    /\ \E k \in ListBlocks :
          /\ k > 1
          /\ Len(heap[result[k]].items.elems) = 2
          /\ heap[result[k]].text = <<"-", " ", "a", "\n", "-", " ", "a">>

\* the spans of the groups that result[k] stands for, in reading order
MemberSpans(k) ==
    Concat([m \in 1..Width(result[k]) |->
               chunks_raw[classified[RunStart(k) + m - 1]].lines])

IsLinked(t) == t.kind # "none"

\* the first hyperlink_target that is not None in a sequence of spans
FirstNonNull(lines) ==
    LET targets == SelectSeq([m \in 1..Len(lines) |-> lines[m].hyperlink_target],
                             IsLinked)
    IN IF targets = <<>> THEN NoTarget ELSE targets[1]

\* C12: every chunk of the process_structure output, list blocks included,
\* has as hyperlink_target the first hyperlink_target that is not None among
\* its member spans in reading order, and None only when every member span
\* has None.
Cex_C12_FirstHyperlink ==
    Structured =>
        \A k \in 1..Len(result) :
            heap[result[k]].hyperlink_target = FirstNonNull(MemberSpans(k))

\* the number of spans in the first g groups of chunks_raw
RECURSIVE SpansThrough(_)
SpansThrough(g) == IF g = 0 THEN 0 ELSE SpansThrough(g - 1) + Len(chunks_raw[g].lines)

\* the group of chunks_raw that span number i of the input was put in
GroupOf(i) == CHOOSE g \in 1..Len(chunks_raw) : SpansThrough(g - 1) < i /\ i <= SpansThrough(g)

\* group_into_chunks has returned
Grouped == cpc \in {"structured", "merged"}

\* a bare marker span shares the group of the span after it
MarkerJoinsNext ==
    \A i \in 1..(Len(spans) - 1) :
        IsBareMarker(spans[i].text) => GroupOf(i) = GroupOf(i + 1)

\* no group is made of bare marker spans only
NoMarkerOnlyGroup ==
    \A g \in 1..Len(chunks_raw) :
        \E m \in 1..Len(chunks_raw[g].lines) : ~ IsBareMarker(chunks_raw[g].lines[m].text)

\* C17: a span whose trimmed text is a bare list-marker glyph is put in the
\* group of the span that follows it, whatever styles and gap, and no group
\* returned by group_into_chunks consists of bare marker spans only, for
\* every span sequence, one that ends with a marker included.
Cex_C17_MarkerNeverAlone == Grouped => (MarkerJoinsNext /\ NoMarkerOnlyGroup)

\* C18: for two consecutive spans of which the previous is no bare marker,
\* group_into_chunks puts the current span in the previous span's group if
\* and only if font, size, bold and italic are identical, the colors differ
\* by less than 10, and current top minus previous bottom is at most 10 when
\* the current span's size is at least 13 and at most 6 otherwise; in every
\* other case the current span starts a new group.
Thm_C18_GroupingRule ==
    Grouped =>
        \A i \in 2..Len(spans) :
            LET prev == spans[i - 1]
                curr == spans[i]
                gap == curr.bbox[2] - prev.bbox[4]
                joins ==
                    /\ curr.font = prev.font
                    /\ curr.size = prev.size
                    /\ curr.bold = prev.bold
                    /\ curr.italic = prev.italic
                    /\ curr.color - prev.color < 10
                    /\ prev.color - curr.color < 10
                    /\ gap <= (IF curr.size >= 1300 THEN 10 ELSE 6)
            IN ~ IsBareMarker(prev.text) =>
                  /\ joins => GroupOf(i) = GroupOf(i - 1)
                  /\ ~ joins => /\ GroupOf(i) = GroupOf(i - 1) + 1
                                /\ chunks_raw[GroupOf(i)].lines[1] = curr

\* two spans of size 13 exactly 10 apart, put in one group
Wit_C18_GroupingRule ==
    /\ Grouped
    /\ Len(spans) = 2
    /\ spans[1].size = 1300
    /\ spans[2].size = 1300
    /\ spans[2].bbox[2] - spans[1].bbox[4] = 10
    /\ Len(chunks_raw) = 1
    /\ Len(chunks_raw[1].lines) = 2

\* the spans of page p, in order
PageSpans(p) == SelectSeq(spans, LAMBDA sp : sp.page = p)

\* group_into_chunks run on the spans of each page apart, results concatenated
\* in page order
GroupedPerPage ==
    Concat([p \in 1..SetMax(SpanPages) |-> group_into_chunks(PageSpans(p))])

\* span i is the last of its page and a bare marker, span i + 1 opens the next
MarkerAcrossPages(i) ==
    IsBareMarker(spans[i].text) /\ spans[i].page # spans[i + 1].page

\* C19: grouping shares no state across pages: group_into_chunks on the
\* whole span sequence gives the groups of running it on the spans of each
\* page apart and concatenating in page order, so no group holds spans of
\* two pages unless the marker exception joined them.
Cex_C19_PageIndependent ==
    (Grouped /\ \A i \in 1..(Len(spans) - 1) : ~ MarkerAcrossPages(i)) =>
        /\ chunks_raw = GroupedPerPage
        /\ \A g \in 1..Len(chunks_raw) : chunks_raw[g].page_start = chunks_raw[g].page_end

\* the letters a-z, A-Z and the Cyrillic letters of both cases
ListLeadLetters ==
    Range(LowerLatin) \cup Range(UpperLatin) \cup Range(LowerCyrillic)
        \cup Range(UpperCyrillic)

\* text begins with digits and then "." or ")", or with one letter and then
\* ")", followed by a whitespace character
HasOrderedLead(text) ==
    \/ \E d \in 1..Len(text) :
          /\ \A m \in 1..d : text[m] \in Digits
          /\ Len(text) >= d + 2
          /\ text[d + 1] \in {".", ")"}
          /\ IsSpace(text[d + 2])
    \/ /\ Len(text) >= 3
       /\ text[1] \in ListLeadLetters
       /\ text[2] = ")"
       /\ IsSpace(text[3])

\* C20: classify_chunk returns ordered_list_item exactly when the
\* left-trimmed text begins with digits followed by "." or ")", or with one
\* letter of a-z, A-Z, the lower or the upper case Cyrillic letters followed
\* by ")", and then a whitespace character, at every font size and boldness.
Cex_C20_OrderedLead ==
    Grouped =>
        \A k \in 1..Len(classified) :
            heap[classified[k]].type = "ordered_list_item"
                <=> HasOrderedLead(LStrip(full_text(chunks_raw[k].lines)))

\* the left-trimmed text of group k
LeadOf(k) == LStrip(full_text(chunks_raw[k].lines))

StartsWithBullet(text) == text # <<>> /\ Head(text) \in unordered_markers

\* the type classify_chunk gave group k
TypeOf(k) == heap[classified[k]].type

\* C21: the list-shape checks come before every later rule of
\* classify_chunk: a group whose text starts with an unordered bullet glyph
\* and does not match the ordered-list pattern is list_item, also when it is
\* bold, short and of heading size or holds a reference marker, and a group
\* that matches the ordered-list pattern is ordered_list_item, also when it
\* starts with a bullet glyph.
Thm_C21_ListShapeFirst ==
    Grouped =>
        \A k \in 1..Len(classified) :
            /\ ordered_pattern(LeadOf(k)) => TypeOf(k) = "ordered_list_item"
            /\ (StartsWithBullet(LeadOf(k)) /\ ~ ordered_pattern(LeadOf(k)))
                  => TypeOf(k) = "list_item"

\* a bold bulleted group of heading size and a bulleted group with a
\* reference marker, both list_item, and a bold numbered group of heading size
Wit_C21_ListShapeFirst ==
    /\ Grouped
    /\ \E k \in 1..Len(classified) :
          /\ StartsWithBullet(LeadOf(k))
          /\ chunks_raw[k].lines[1].bold
          /\ chunks_raw[k].lines[1].size = 1600
          /\ has_reference(chunks_raw[k].lines)
          /\ TypeOf(k) = "list_item"
    /\ \E k \in 1..Len(classified) :
          /\ ordered_pattern(LeadOf(k))
          /\ chunks_raw[k].lines[1].bold
          /\ chunks_raw[k].lines[1].size = 1600
          /\ TypeOf(k) = "ordered_list_item"

ChunkTypes ==
    {"ordered_list_item", "list_item", "section_h1", "section_h2", "section_h3",
     "reference", "caption", "paragraph"}

\* the type the decision list gives a group that matches neither list rule
NonListType(lines) ==
    LET n == Len(lines)
        sum == SumSizes(lines)      \* mean size >= x  iff  sum >= x * n
        bold == \E m \in 1..n : lines[m].bold
        len == Len(full_text(lines))
    IN IF sum >= 1600 * n /\ bold /\ len < 160 THEN "section_h1"
       ELSE IF sum >= 1350 * n /\ sum < 1600 * n /\ bold /\ len < 160 THEN "section_h2"
       ELSE IF sum >= 1200 * n /\ sum < 1350 * n /\ bold /\ len < 160 THEN "section_h3"
       ELSE IF has_reference(lines) THEN "reference"
       ELSE IF sum < 1200 * n /\ ~ bold /\ len < 100 THEN "caption"
       ELSE "paragraph"

\* C22: for a group matching neither list rule classify_chunk returns, first
\* match winning: section_h1 if mean size >= 16, some member bold, text
\* shorter than 160; section_h2 if 13.5 <= mean size < 16, same conditions;
\* section_h3 if 12 <= mean size < 13.5, same conditions; reference if a
\* member text holds a figure/table/see-also marker; caption if mean size
\* < 12, no member bold, text shorter than 100; paragraph otherwise.  The
\* result is always one of the eight types, and a size-11 non-bold group
\* with a figure marker is reference, not caption.
Thm_C22_DecisionList ==
    Grouped =>
        \A k \in 1..Len(classified) :
            /\ TypeOf(k) \in ChunkTypes
            /\ (~ ordered_pattern(LeadOf(k)) /\ ~ StartsWithBullet(LeadOf(k)))
                  => TypeOf(k) = NonListType(chunks_raw[k].lines)

\* a size-11 non-bold group with a figure marker, classified reference
Wit_C22_DecisionList ==
    /\ Grouped
    /\ Len(classified) = 1
    /\ chunks_raw[1].lines[1].text = <<"CYR_R", "cyr_i", "cyr_s", ".">>
    /\ chunks_raw[1].lines[1].size = 1100
    /\ ~ chunks_raw[1].lines[1].bold
    /\ TypeOf(1) = "reference"

\* the block type group_lists gives a run of a list-item type
BlockTypeOf(t) == IF t = "ordered_list_item" THEN "ordered_list_block" ELSE "list_block"

IsBlockType(t) == t \in {"list_block", "ordered_list_block"}

\* C23: group_lists replaces each maximal run of chunks of one list type by
\* one block chunk of the matching block type at the place of the run's
\* first member, with that member's chunk_id and page_start and the last
\* member's page_end; every other chunk is passed on unchanged and in order;
\* the output holds no list_item or ordered_list_item chunk and no two
\* adjacent blocks of one block type, and its chunk_ids stay unique and in
\* document order.
Thm_C23_GroupLists ==
    Structured =>
        /\ RunStart(Len(result) + 1) = Len(classified) + 1
        /\ \A k \in 1..Len(result) :
              LET out == heap[result[k]]
                  s == RunStart(k)
                  n == Width(result[k])
                  first == heap[classified[s]]
                  last == heap[classified[s + n - 1]]
              IN /\ ~ IsListItemType(out.type)
                 /\ out.chunk_id = ChunkId(s - 1)
                 /\ out.chunk_id = first.chunk_id
                 /\ IF IsListItemType(first.type)
                    THEN /\ out.items.present
                         /\ out.type = BlockTypeOf(first.type)
                         /\ \A m \in s..(s + n - 1) :
                               heap[classified[m]].type = first.type
                         /\ s > 1 => heap[classified[s - 1]].type # first.type
                         /\ s + n <= Len(classified) =>
                               heap[classified[s + n]].type # first.type
                         /\ out.page_start = first.page_start
                         /\ out.page_end = last.page_end
                    ELSE result[k] = classified[s]
        /\ \A k \in 1..(Len(result) - 1) :
              IsBlockType(heap[result[k]].type) =>
                  heap[result[k + 1]].type # heap[result[k]].type

\* a list block made of a run of two items, followed by a chunk that is
\* passed on
Wit_C23_GroupLists ==
    /\ Structured
    /\ Len(classified) = 3
    /\ Len(result) = 2
    /\ heap[result[1]].type = "list_block"
    /\ Len(heap[result[1]].items.elems) = 2
    /\ heap[result[1]].page_end = heap[classified[2]].page_end
    /\ ~ IsBlockType(heap[result[2]].type)
    /\ result[2] = classified[3]

\* the member spans of all groups, in output order
AllMemberSpans == Concat([g \in 1..Len(chunks_raw) |-> chunks_raw[g].lines])

\* C28: group_into_chunks partitions its input: every group is non-empty,
\* the groups' member spans concatenated in output order are the input span
\* sequence (no span lost, duplicated or reordered), the page_start and
\* page_end of a group are the pages of its first and last member, and an
\* empty span sequence gives an empty group sequence.
Thm_C28_Partition ==
    Grouped =>
        /\ \A g \in 1..Len(chunks_raw) :
              LET lines == chunks_raw[g].lines
              IN /\ lines # <<>>
                 /\ chunks_raw[g].page_start = lines[1].page
                 /\ chunks_raw[g].page_end = lines[Len(lines)].page
        /\ AllMemberSpans = spans
        /\ spans = <<>> => chunks_raw = <<>>

\* three spans in two groups, the first group a bare marker on page 1 with
\* the text that follows it on page 2
Wit_C28_Partition ==
    /\ Grouped
    /\ Len(spans) = 3
    /\ Len(chunks_raw) = 2
    /\ Len(chunks_raw[1].lines) = 2
    /\ chunks_raw[1].page_start = 1
    /\ chunks_raw[1].page_end = 2
    /\ chunks_raw[2].lines = <<spans[3]>>

(***************************************************************************)
(* Properties of merge_adjacent_headings (SpecHeadings).                   *)
(***************************************************************************)
\* merge_adjacent_headings has returned
Merged == cpc = "merged"

\* the positions of the list process_structure returned at which a maximal
\* run of one heading type, or a chunk that is no heading, begins
Starts ==
    {i \in 1..Len(result) :
        \/ i = 1
        \/ ~ IsSectionType(StructuredHeap[result[i]].type)
        \/ StructuredHeap[result[i - 1]].type # StructuredHeap[result[i]].type}

NthStart(k) == CHOOSE s \in Starts : Cardinality({t \in Starts : t < s}) = k - 1

\* the last position of the run beginning at the k-th start
NthEnd(k) ==
    IF k = Cardinality(Starts) THEN Len(result) ELSE NthStart(k + 1) - 1

\* the texts of positions s..e before the merge, joined by single spaces
RECURSIVE SpaceJoined(_, _)
SpaceJoined(s, e) ==
    IF s = e THEN StructuredHeap[result[s]].text
    ELSE SpaceJoined(s, e - 1) \o <<" ">> \o StructuredHeap[result[e]].text

\* C24: merge_adjacent_headings replaces each maximal run of adjacent chunks
\* of one heading type by one chunk of that type with the run's texts joined
\* by single spaces in order, the first member's page_start and the last
\* member's page_end; headings of different types are not merged, chunks
\* that are no headings pass through in order, and the output has no two
\* adjacent chunks of one heading type.
Thm_C24_MergeHeadings ==
    Merged =>
        /\ Len(merged) = Cardinality(Starts)
        /\ \A k \in 1..Len(merged) :
              LET s == NthStart(k)
                  e == NthEnd(k)
                  first == StructuredHeap[result[s]]
                  out == heap[merged[k]]
              IN /\ merged[k] = result[s]
                 /\ out.type = first.type
                 /\ out.chunk_id = first.chunk_id
                 /\ out.page_start = first.page_start
                 /\ out.page_end = StructuredHeap[result[e]].page_end
                 /\ out.text = SpaceJoined(s, e)
                 /\ ~ IsSectionType(first.type) => (s = e /\ out = first)
        /\ ~ AdjacentSameHeading(merged)

\* two section_h1 chunks on different pages merged into one, right before a
\* section_h2 chunk that stays on its own
Wit_C24_MergeHeadings ==
    /\ Merged
    /\ Len(result) = 3
    /\ Len(merged) = 2
    /\ heap[merged[1]].type = "section_h1"
    /\ heap[merged[1]].text = <<"T", " ", "T">>
    /\ heap[merged[1]].page_start = 1
    /\ heap[merged[1]].page_end = 2
    /\ heap[merged[2]].type = "section_h2"
    /\ heap[merged[2]].text = <<"U">>

====
